---- MODULE Spec2Model ----
(***************************************************************************)
(* Model of app.py, a Streamlit script.  Streamlit executes the whole     *)
(* script body top to bottom once when a session opens and again after     *)
(* every widget interaction; each execution ("run") starts from a fresh    *)
(* namespace.  State that survives a run: the files on disk, the widget    *)
(* state of the session and the process-wide st.cache_resource cache.      *)
(*                                                                         *)
(* Numbers: age is in whole years; the float-valued widgets are kept in    *)
(* tenths (BMI 22.0 is 220); probabilities are in thousandths.             *)
(***************************************************************************)
EXTENDS Integers, Sequences, FiniteSets

\* ------------------------------------------------------------ bounds
\* Script runs per session.
MaxRuns == 3
\* Browser sessions served by the one server process.
MaxSessions == 2

\* ------------------------------------------------ widget declarations
AgeMin == 10
AgeMax == 100
AgeDefault == 30
BmiMin == 100
BmiMax == 400
BmiDefault == 220
GammaMin == 0
GammaMax == 5000
GammaDefault == 300
HemoMin == 50
HemoMax == 200
HemoDefault == 130

\* Column order of the feature row (lines 56-61, and 34 for the inline fit).
FeatureColumns == <<"age", "BMI", "gamma_GTP", "hemoglobin">>

\* The declared range of each widget.
WidgetRange ==
  [age |-> AgeMin..AgeMax, BMI |-> BmiMin..BmiMax,
   gamma_GTP |-> GammaMin..GammaMax, hemoglobin |-> HemoMin..HemoMax]

\* The values a user is taken to pick: the default and one end of the range.
WidgetValues ==
  [age |-> {AgeDefault, AgeMax}, BMI |-> {BmiMin, BmiDefault},
   gamma_GTP |-> {GammaDefault, GammaMax}, hemoglobin |-> {HemoDefault, HemoMax}]

WidgetDefaults ==
  [age |-> AgeDefault, BMI |-> BmiDefault,
   gamma_GTP |-> GammaDefault, hemoglobin |-> HemoDefault]

\* ------------------------------------------------------ Python values
\* An unbound name is None; a bound one is Some(value).
None == <<>>
Some(x) == <<x>>

\* ------------------------------------------------------------ artifacts
\* Probabilities are fixed-point: ProbOne stands for 1.0.
ProbOne == 1000

\* What rf_smoking_model.pkl can hold: a binary classifier over classes 0/1.
\* It is a tree-style rule on one column of the row it is given: the
\* probability of class 1 is pLo at or below the threshold and pHi above it.
SmokingArtifacts ==
  { [col |-> 3, thr |-> 0, pLo |-> 165, pHi |-> 835],
    [col |-> 1, thr |-> 5, pLo |-> 500, pHi |-> 1000] }

\* What scaler.pkl can hold: a standardising transform, per column a mean and
\* a scale, (x - mean) / scale.  Means and scales are in the units of the
\* column; the result is in tenths.
ScalerArtifacts ==
  { [mean |-> <<45, 240, 400, 140>>, scale |-> <<15, 35, 500, 15>>],
    [mean |-> <<0, 0, 0, 0>>, scale |-> <<1, 10, 10, 10>>] }

\* What model.fit leaves in the inline model: ten depth-2 trees fitted on the
\* four rows of lines 28-32 with labels DRK_YN in {0, 1}, so a binary
\* classifier over classes 0/1 whose probabilities depend on the raw row.
InlineModels ==
  { [col |-> 3, thr |-> 400, pLo |-> 738, pHi |-> 262],
    [col |-> 1, thr |-> 30, pLo |-> 881, pHi |-> 119] }

\* The states of a file on disk.  "ok" deserialises to a usable object,
\* "unfit" deserialises to an object whose methods raise (not fitted, or
\* fitted on other columns), "corrupt" does not unpickle, "missing" is absent.
FileStates == {"missing", "corrupt", "ok", "unfit"}

\* ------------------------------------------------------------ state
VARIABLES
  files,        \* the artifact files next to the script, as the run finds them
  cache,        \* st.cache_resource entry of train_inline_drinking_model
  widgets,      \* the session's widget state
  shown,        \* whether the last run rendered the sidebar widgets
  session,      \* number of the current session
  run,          \* number of the current run within the session
  pc,           \* position of the run in the script
  env,          \* the run's namespace
  screen,       \* elements rendered by the run, in order
  calls,        \* scaler / classifier method calls of the run, in order
  loaded,       \* which artifacts an earlier step of the session deserialised
  fits,         \* executions of the inline fit: in this session, and in all
  loadFailed,   \* whether the load failed in some run of the session
  raised        \* the exception raised inside the prediction try block, if any

vars == <<files, cache, widgets, shown, session, run, pc, env, screen, calls,
          loaded, fits, loadFailed, raised>>

\* The namespace at the start of a run: nothing is bound.
EmptyEnv ==
  [rf_model |-> None, scaler |-> None, model_loaded |-> None, gb_model |-> None,
   age |-> None, bmi |-> None, gamma_GTP |-> None, hemoglobin |-> None,
   input_data |-> None, input_scaled |-> None,
   smoking_pred |-> None, smoking_prob |-> None,
   drinking_pred |-> None, drinking_prob |-> None]

\* A file: its state and what it deserialises to.  Only an "ok" file's content
\* matters, so the other states carry one fixed content.
NoSmoking == [col |-> 1, thr |-> 0, pLo |-> 0, pHi |-> 0]
NoScaler == [mean |-> <<0, 0, 0, 0>>, scale |-> <<1, 1, 1, 1>>]
SmokingFiles ==
  {[st |-> "ok", obj |-> o] : o \in SmokingArtifacts}
    \cup {[st |-> s, obj |-> NoSmoking] : s \in FileStates \ {"ok"}}
ScalerFiles ==
  {[st |-> "ok", obj |-> o] : o \in ScalerArtifacts}
    \cup {[st |-> s, obj |-> NoScaler] : s \in FileStates \ {"ok"}}
FileSystems ==
  [smk : SmokingFiles, scl : ScalerFiles, drk : {"present", "missing"}]

Init ==
  /\ files \in FileSystems
  /\ cache = None
  /\ widgets = WidgetDefaults
  /\ shown = FALSE
  /\ session = 1
  /\ run = 0
  /\ pc = "start"
  /\ env = EmptyEnv
  /\ screen = <<>>
  /\ calls = <<>>
  /\ loaded = [smk |-> FALSE, scl |-> FALSE]
  /\ fits = [session |-> 0, total |-> 0]
  /\ loadFailed = FALSE
  /\ raised = None

\* ------------------------------------------------------ library calls
\* joblib.load(path): the exception it raises ("none" when it returns).
LoadOutcome(file) ==
  CASE file.st = "missing" -> "FileNotFoundError"
    [] file.st = "corrupt" -> "UnpicklingError"
    [] OTHER -> "none"

\* The object joblib.load returns for a file that deserialises.
Loaded(file) == [fitted |-> file.st = "ok", obj |-> file.obj, run |-> run]

\* A handler written for another exception class.
LoadHandlerCatchesOther(exc) == exc = "UnpicklingError"

\* except FileNotFoundError (line 20).
LoadHandlerCatches(exc) == exc = "FileNotFoundError"

\* A handler narrowed to ValueError, of which only NotFittedError is one.
PredictHandlerCatchesValueError(exc) == exc = "NotFittedError"

\* except Exception (line 96): every exception raised below is an Exception.
PredictHandlerCatches(exc) ==
  exc \in {"NameError", "NotFittedError", "MemoryError", "StreamlitAPIException"}

\* A feature row as pandas / numpy hold it.
DataFrame(vals) == [type |-> "DataFrame", cols |-> FeatureColumns, vals |-> vals]
NdArray(vals) == [type |-> "ndarray", cols |-> <<>>, vals |-> vals]

\* scaler.transform(row): column-wise (x - mean) / scale, as a bare array.
Transform(sc, row) ==
  NdArray([i \in 1..Len(row.vals) |->
             ((row.vals[i] - sc.obj.mean[i]) * 10) \div sc.obj.scale[i]])

\* model.predict_proba(row)[0]: the probabilities of class 0 and class 1.
PredictProba(m, row) ==
  LET p1 == IF row.vals[m.obj.col] <= m.obj.thr THEN m.obj.pLo ELSE m.obj.pHi
  IN  <<ProbOne - p1, p1>>

\* model.predict(row)[0]: the class of the largest probability, the first
\* one on a tie.
Predict(m, row) ==
  LET p == PredictProba(m, row) IN IF p[2] > p[1] THEN 1 ELSE 0

\* The exceptions a method call on a loaded or fitted object can end in.
CallOutcomes(m) ==
  IF m = None THEN {"NameError"}
  ELSE IF ~m[1].fitted THEN {"NotFittedError"}
  ELSE {"none", "MemoryError"}

\* The exceptions a rendering call can end in.
RenderOutcomes == {"none", "StreamlitAPIException"}

RECURSIVE SeqMax(_)
SeqMax(s) ==
  IF Len(s) = 1 THEN s[1]
  ELSE LET m == SeqMax(Tail(s)) IN IF s[1] >= m THEN s[1] ELSE m

\* The first entry of the vector, the probability of class 0.
ConfidenceFirst(p) == p[1]

\* .max() of the probability vector (lines 69, 73).
Confidence(p) == SeqMax(p)

\* f"{x:.2f}": the hundredths a probability can be printed as.  A value whose
\* thousandths end in 5 stands for floats on both sides of the half.
Fmt2(p) ==
  IF p % 10 = 5 THEN {p \div 10, p \div 10 + 1} ELSE {(p + 5) \div 10}

\* ------------------------------------------------------------ rendering
Element(kind, label, value, delta, text) ==
  [kind |-> kind, label |-> label, value |-> value, delta |-> delta, text |-> text]

\* st.error of line 21.
LoadError ==
  Element("error", "", "", -1,
          "Model or scaler files not found. Please make sure 'rf_smoking_model.pkl' and 'scaler.pkl' exist.")

\* st.error of line 97: the exception's text is interpolated.
PredictionError(exc) == Element("error", "", "Error during prediction", -1, exc)

\* The comparison turned round.
MetricValueSwapped(pred, positive, negative) == IF pred = 1 THEN negative ELSE positive

\* The value shown for a label (lines 82, 89).
MetricValue(pred, positive, negative) == IF pred = 1 THEN positive ELSE negative

\* ------------------------------------------------------------ a run begins
\* The file systems a later run can find: between two runs somebody may add,
\* remove or replace one artifact file.
FilesAfter(old) ==
  {fs \in FileSystems : Cardinality({f \in DOMAIN fs : fs[f] # old[f]}) <= 1}

\* A new run: a fresh namespace and an empty page.  The run finds the
\* files as they are by then.
StartRun(fs) ==
  /\ run < MaxRuns
  /\ run' = run + 1
  /\ pc' = "L17"
  /\ files' = fs
  /\ env' = EmptyEnv
  /\ screen' = <<>>
  /\ calls' = <<>>
  /\ raised' = None
  /\ UNCHANGED <<cache, shown, session, loaded, fits, loadFailed>>

\* The session opens: the first run, with every widget at its default.
FirstRun ==
  /\ pc = "start"
  /\ StartRun(files)
  /\ UNCHANGED widgets

\* The user reruns the script without touching a widget.  Files may have been
\* added, removed or replaced since the last run.
Rerun ==
  /\ pc \in {"done", "crashed"}
  /\ \E fs \in FilesAfter(files) : StartRun(fs)
  /\ UNCHANGED widgets

\* The user moves one widget, which reruns the script.
Interact ==
  /\ pc \in {"done", "crashed"}
  /\ shown
  /\ \E w \in DOMAIN WidgetValues :
       \E v \in WidgetValues[w] \ {widgets[w]} :
         widgets' = [widgets EXCEPT ![w] = v]
  /\ \E fs \in FilesAfter(files) : StartRun(fs)

\* Another browser session opens on the same server process: its widget
\* state is new, the st.cache_resource cache is the process's.
NewSession ==
  /\ pc \in {"done", "crashed"}
  /\ session < MaxSessions
  /\ session' = session + 1
  /\ run' = 0
  /\ pc' = "start"
  /\ files' \in FilesAfter(files)
  /\ widgets' = WidgetDefaults
  /\ shown' = FALSE
  /\ env' = EmptyEnv
  /\ screen' = <<>>
  /\ calls' = <<>>
  /\ loaded' = [smk |-> FALSE, scl |-> FALSE]
  /\ fits' = [fits EXCEPT !.session = 0]
  /\ loadFailed' = FALSE
  /\ raised' = None
  /\ UNCHANGED cache

\* ------------------------------------------------------------ lines 16-22
\* An exception leaves the try block of line 16: the handler of line 20
\* takes it (lines 21-22) or it ends the run.
LoadRaises(exc) ==
  IF LoadHandlerCatches(exc)
  THEN /\ screen' = Append(screen, LoadError)
       /\ env' = [env EXCEPT !.model_loaded = Some(FALSE)]
       /\ loadFailed' = TRUE
       /\ pc' = "L40"
  ELSE /\ pc' = "crashed"
       /\ UNCHANGED <<screen, env, loadFailed>>

\* Line 17: rf_model = joblib.load(smoking_model_path).
LoadSmokingModel ==
  /\ pc = "L17"
  /\ LET exc == LoadOutcome(files.smk) IN
       IF exc = "none"
       THEN /\ env' = [env EXCEPT !.rf_model = Some(Loaded(files.smk))]
            /\ loaded' = [loaded EXCEPT !.smk = TRUE]
            /\ pc' = "L18"
            /\ UNCHANGED <<screen, loadFailed>>
       ELSE /\ LoadRaises(exc)
            /\ UNCHANGED loaded
  /\ UNCHANGED <<files, cache, widgets, shown, session, run, calls, fits, raised>>

\* Lines 18-19: scaler = joblib.load(scaler_path); model_loaded = True.
LoadScaler ==
  /\ pc = "L18"
  /\ LET exc == LoadOutcome(files.scl) IN
       IF exc = "none"
       THEN /\ env' = [env EXCEPT !.scaler = Some(Loaded(files.scl)),
                                  !.model_loaded = Some(TRUE)]
            /\ loaded' = [loaded EXCEPT !.scl = TRUE]
            /\ pc' = "L40"
            /\ UNCHANGED <<screen, loadFailed>>
       ELSE /\ LoadRaises(exc)
            /\ UNCHANGED loaded
  /\ UNCHANGED <<files, cache, widgets, shown, session, run, calls, fits, raised>>

\* ------------------------------------------------------------ lines 25-40
\* The function without its decorator: every call runs the body.
CacheNever(c) == FALSE

\* @st.cache_resource: an entry of the cache stands for the call.
CacheHit(c) == c # None

\* Line 40: gb_model = train_inline_drinking_model().  On a cache miss the body
\* runs (lines 27-38) and its result is cached; on a hit the cached object is
\* returned.
TrainInline ==
  /\ pc = "L40"
  /\ IF CacheHit(cache)
     THEN /\ env' = [env EXCEPT !.gb_model = cache]
          /\ UNCHANGED <<cache, fits>>
     ELSE \E m \in InlineModels :
            LET model == [fitted |-> TRUE, obj |-> m, id |-> fits.total + 1]
            IN  /\ cache' = Some(model)
                /\ env' = [env EXCEPT !.gb_model = Some(model)]
                /\ fits' = [session |-> fits.session + 1, total |-> fits.total + 1]
  /\ pc' = "L47"
  /\ UNCHANGED <<files, widgets, shown, session, run, screen, calls, loaded, loadFailed, raised>>

\* ------------------------------------------------------------ lines 43-52
\* The title, the introduction and the sidebar: each widget returns the
\* session's value for it.
Sidebar ==
  /\ pc = "L47"
  /\ screen' = screen \o <<Element("title", "", "", -1, ""),
                           Element("markdown", "", "", -1, "intro"),
                           Element("sidebar", "", "", -1, "")>>
  /\ shown' = TRUE
  /\ env' = [env EXCEPT !.age = Some(widgets.age), !.bmi = Some(widgets.BMI),
                        !.gamma_GTP = Some(widgets.gamma_GTP),
                        !.hemoglobin = Some(widgets.hemoglobin)]
  /\ pc' = "L55"
  /\ UNCHANGED <<files, cache, widgets, session, run, calls, loaded, fits, loadFailed, raised>>

\* ------------------------------------------------------------ lines 55-97
\* The prediction section without its gate.
PredictionAlways(e) == TRUE

\* if model_loaded: (line 55).
PredictionEnabled(e) == e.model_loaded = Some(TRUE)

\* The one-row table of lines 56-61, built from the run's four form values.
InputData(e) ==
  DataFrame(<<e.age[1], e.bmi[1], e.gamma_GTP[1], e.hemoglobin[1]>>)

\* The smoking metric rendered as soon as the smoking prediction is there.
TryOrderEager == <<"L65", "L68", "L69", "L76", "L80", "L72", "L73", "L87", "L93", "L94">>

\* The statements of the try block in the order the script runs them.
TryOrder == <<"L65", "L68", "L69", "L72", "L73", "L76", "L80", "L87", "L93", "L94">>

\* The position after statement p of the try block.
After(p) ==
  LET i == CHOOSE k \in 1..Len(TryOrder) : TryOrder[k] = p
  IN  IF i = Len(TryOrder) THEN "done" ELSE TryOrder[i + 1]

\* The drinking classifier given the scaled row, like the smoking one.
DrinkingInputScaled(e) == e.input_scaled[1]

\* What the smoking classifier is given (lines 68-69), and the drinking
\* classifier (lines 72-73).
SmokingInput(e) == e.input_scaled[1]
DrinkingInput(e) == e.input_data[1]

\* Lines 55-61.
Gate ==
  /\ pc = "L55"
  /\ IF PredictionEnabled(env)
     THEN /\ env' = [env EXCEPT !.input_data = Some(InputData(env))]
          /\ pc' = TryOrder[1]
     ELSE /\ pc' = "done"
          /\ UNCHANGED env
  /\ UNCHANGED <<files, cache, widgets, shown, session, run, screen, calls,
                 loaded, fits, loadFailed, raised>>

\* An exception leaves the try block of line 63: the handler of line 96
\* takes it and renders it (line 97), or it ends the run.
TryRaises(exc) ==
  /\ raised' = Some([at |-> pc, exc |-> exc])
  /\ IF PredictHandlerCatches(exc)
     THEN /\ screen' = Append(screen, PredictionError(exc))
          /\ pc' = "done"
     ELSE /\ pc' = "crashed"
          /\ UNCHANGED screen

\* name = target.fn(arg) inside the try block: the call returns and binds the
\* name, or raises.  A target that is not bound raises before any call.
MethodCall(target, fn, arg, name, result) ==
  /\ \E exc \in CallOutcomes(target) :
       /\ calls' = IF target = None THEN calls
                   ELSE Append(calls, [fn |-> fn, arg |-> arg])
       /\ IF exc = "none"
          THEN /\ env' = [env EXCEPT ![name] = Some(result)]
               /\ pc' = After(pc)
               /\ UNCHANGED <<screen, raised>>
          ELSE /\ TryRaises(exc)
               /\ UNCHANGED env
  /\ UNCHANGED <<files, cache, widgets, shown, session, run, loaded, fits, loadFailed>>

\* Line 65: input_scaled = scaler.transform(input_data).
Scale ==
  /\ pc = "L65"
  /\ MethodCall(env.scaler, "scaler.transform", env.input_data[1],
                "input_scaled", Transform(env.scaler[1], env.input_data[1]))

\* Line 68: smoking_pred = rf_model.predict(input_scaled)[0].
SmokingPredict ==
  /\ pc = "L68"
  /\ MethodCall(env.rf_model, "rf_model.predict", SmokingInput(env),
                "smoking_pred", Predict(env.rf_model[1], SmokingInput(env)))

\* Line 69: smoking_prob = rf_model.predict_proba(input_scaled)[0].max().
SmokingProba ==
  /\ pc = "L69"
  /\ MethodCall(env.rf_model, "rf_model.predict_proba", SmokingInput(env),
                "smoking_prob",
                Confidence(PredictProba(env.rf_model[1], SmokingInput(env))))

\* Line 72: drinking_pred = gb_model.predict(input_data)[0].
DrinkingPredict ==
  /\ pc = "L72"
  /\ MethodCall(env.gb_model, "gb_model.predict", DrinkingInput(env),
                "drinking_pred", Predict(env.gb_model[1], DrinkingInput(env)))

\* Line 73: drinking_prob = gb_model.predict_proba(input_data)[0].max().
DrinkingProba ==
  /\ pc = "L73"
  /\ MethodCall(env.gb_model, "gb_model.predict_proba", DrinkingInput(env),
                "drinking_prob",
                Confidence(PredictProba(env.gb_model[1], DrinkingInput(env))))

\* A rendering call inside the try block: it adds one of the elements, or
\* raises.
Render(elements) ==
  /\ \E exc \in RenderOutcomes :
       IF exc = "none"
       THEN /\ \E el \in elements : screen' = Append(screen, el)
            /\ pc' = After(pc)
            /\ UNCHANGED raised
       ELSE TryRaises(exc)
  /\ UNCHANGED <<files, cache, widgets, shown, session, run, env, calls, loaded,
                 fits, loadFailed>>

\* Lines 76-77: the results heading and the two columns.
ResultsHeader ==
  /\ pc = "L76"
  /\ Render({Element("subheader", "", "", -1, "Prediction Results")})

\* Lines 79-84: the smoking metric.
SmokingMetric ==
  /\ pc = "L80"
  /\ Render({Element("metric", "Smoking Status",
                     MetricValue(env.smoking_pred[1], "Smoker", "Non-Smoker"), d, "")
               : d \in Fmt2(env.smoking_prob[1])})

\* Lines 86-91: the drinking metric.
DrinkingMetric ==
  /\ pc = "L87"
  /\ Render({Element("metric", "Drinking Status",
                     MetricValue(env.drinking_pred[1], "Drinker", "Non-Drinker"), d, "")
               : d \in Fmt2(env.drinking_prob[1])})

\* Line 93: the divider.
Divider ==
  /\ pc = "L93"
  /\ Render({Element("markdown", "", "", -1, "---")})

\* Line 94: the disclaimer.
Disclaimer ==
  /\ pc = "L94"
  /\ Render({Element("info", "", "", -1, "educational purposes only")})

\* ------------------------------------------------------------ specification
Next ==
  \/ FirstRun
  \/ Rerun
  \/ Interact
  \/ NewSession
  \/ LoadSmokingModel
  \/ LoadScaler
  \/ TrainInline
  \/ Sidebar
  \/ Gate
  \/ Scale
  \/ SmokingPredict
  \/ SmokingProba
  \/ DrinkingPredict
  \/ DrinkingProba
  \/ ResultsHeader
  \/ SmokingMetric
  \/ DrinkingMetric
  \/ Divider
  \/ Disclaimer

Spec == Init /\ [][Next]_vars

\* ------------------------------------------------------------ properties
\* Positions of the screen holding a metric with the given label, a
\* prediction-error message, the load-error message, any output of the
\* prediction section.
Metrics(label) ==
  {i \in 1..Len(screen) : screen[i].kind = "metric" /\ screen[i].label = label}
AllMetrics == {i \in 1..Len(screen) : screen[i].kind = "metric"}
PredictionErrors ==
  {i \in 1..Len(screen) :
     screen[i].kind = "error" /\ screen[i].value = "Error during prediction"}
LoadErrors == {i \in 1..Len(screen) : screen[i] = LoadError}
ResultElements ==
  {i \in 1..Len(screen) :
     \/ screen[i].kind \in {"subheader", "metric", "info"}
     \/ screen[i].kind = "markdown" /\ screen[i].text = "---"}

\* The row the current form values make.
FormRow ==
  DataFrame(<<widgets.age, widgets.BMI, widgets.gamma_GTP, widgets.hemoglobin>>)

RunOver == pc \in {"done", "crashed"}
PastLoad == pc \notin {"start", "L17", "L18"}
Deserialises(f) == f.st \in {"ok", "unfit"}

\* The disabled state: the load error is on the page once, the flag is
\* False, nothing of the prediction section has happened, the run goes on.
Disabled ==
  /\ pc \in {"L40", "L47", "L55", "done"}
  /\ env.model_loaded = Some(FALSE)
  /\ Cardinality(LoadErrors) = 1
  /\ calls = <<>>
  /\ ResultElements = {}
  /\ PredictionErrors = {}

\* C1, as stated: a run that found one of the three artifact files (smoking
\* classifier, drinking classifier, scaler) missing, and none unreadable, ends
\* in the disabled state.
C1_AnyOfThreeMissingDisables ==
  (/\ RunOver
   /\ \/ files.smk.st = "missing"
      \/ files.scl.st = "missing"
      \/ files.drk = "missing"
   /\ files.smk.st # "corrupt"
   /\ files.scl.st # "corrupt")
    => Disabled

\* C1, amended: when the smoking-classifier file is missing, or it
\* deserialises and the scaler file is missing, the run is in the disabled
\* state from the end of the load block on and never aborts.
C1_MissingReadFileDisables ==
  (/\ PastLoad
   /\ \/ files.smk.st = "missing"
      \/ Deserialises(files.smk) /\ files.scl.st = "missing")
    => Disabled

C1_Witness ==
  /\ pc = "done"
  /\ Deserialises(files.smk)
  /\ files.scl.st = "missing"
  /\ files.drk = "present"
  /\ Disabled

\* C2: every rendered result has, for its target, a label in {0, 1} and a
\* confidence between 0.5 and 1.0, the form values being within the ranges
\* the widgets declare.
C2_LabelAndConfidenceRange ==
  /\ \A w \in DOMAIN widgets : widgets[w] \in WidgetRange[w]
  /\ Metrics("Smoking Status") # {} =>
       /\ env.smoking_pred[1] \in {0, 1}
       /\ 2 * env.smoking_prob[1] >= ProbOne
       /\ env.smoking_prob[1] <= ProbOne
  /\ Metrics("Drinking Status") # {} =>
       /\ env.drinking_pred[1] \in {0, 1}
       /\ 2 * env.drinking_prob[1] >= ProbOne
       /\ env.drinking_prob[1] <= ProbOne

C2_Witness ==
  /\ Metrics("Smoking Status") # {}
  /\ Metrics("Drinking Status") # {}
  /\ env.smoking_pred[1] = 1
  /\ env.drinking_pred[1] = 0
  /\ 2 * env.smoking_prob[1] > ProbOne
  /\ widgets.gamma_GTP = GammaMax

\* C3: an exception raised by a statement of the try block is caught: the
\* run ends normally and the page holds exactly one prediction-error message,
\* its last element, carrying the exception's text.
C3_FailureCaughtOnce ==
  raised # None =>
    /\ pc = "done"
    /\ Cardinality(PredictionErrors) = 1
    /\ screen[Len(screen)] = PredictionError(raised[1].exc)

C3_Witness ==
  /\ raised # None
  /\ raised[1].at = "L87"
  /\ Metrics("Smoking Status") # {}
  /\ pc = "done"

\* C4, as stated: once the load has failed in a session, no later run of the
\* session has prediction enabled.
C4_LoadFailureIsFinal == loadFailed => ~PredictionEnabled(env)

\* C5, as stated: an artifact the session has deserialised is not
\* deserialised again.
C5_DeserialisedAtMostOnce ==
  [][/\ (env.rf_model = None /\ env'.rf_model # None) => ~loaded.smk
     /\ (env.scaler = None /\ env'.scaler # None) => ~loaded.scl]_vars

C7_FlagGatesPrediction ==
  /\ env.model_loaded = Some(FALSE) =>
       (calls = <<>> /\ ResultElements = {} /\ PredictionErrors = {})
  /\ env.model_loaded = Some(TRUE) =>
       /\ env.rf_model # None /\ env.rf_model[1].run = run
       /\ env.scaler # None /\ env.scaler[1].run = run
       /\ Deserialises(files.smk) /\ Deserialises(files.scl)

C7_Witness ==
  /\ pc = "done"
  /\ env.model_loaded = Some(FALSE)
  /\ env.rf_model # None
  /\ env.gb_model # None

\* C8: the smoking classifier's methods are given the scaler's transform of
\* the form row, the drinking classifier's the form row itself, with the
\* four columns in the order age, BMI, gamma_GTP, hemoglobin.
C8_ScaledForSmokingRawForDrinking ==
  \A i \in 1..Len(calls) :
    /\ calls[i].fn = "scaler.transform" => calls[i].arg = FormRow
    /\ calls[i].fn \in {"rf_model.predict", "rf_model.predict_proba"} =>
         calls[i].arg = Transform(env.scaler[1], FormRow)
    /\ calls[i].fn \in {"gb_model.predict", "gb_model.predict_proba"} =>
         /\ calls[i].arg = FormRow
         /\ calls[i].arg.cols = <<"age", "BMI", "gamma_GTP", "hemoglobin">>

C8_Witness ==
  /\ Len(calls) = 5
  /\ raised = None
  /\ widgets.age = AgeMax
  /\ widgets.hemoglobin = HemoMax

\* C9: each metric shows the positive string for label 1 and the negative
\* string for label 0, next to the printed maximum class probability of its
\* own target.
C9_LabelStringsAndOwnConfidence ==
  /\ \A i \in Metrics("Smoking Status") :
       /\ screen[i].value =
            (IF Predict(env.rf_model[1], env.input_scaled[1]) = 1
             THEN "Smoker" ELSE "Non-Smoker")
       /\ screen[i].delta \in
            Fmt2(SeqMax(PredictProba(env.rf_model[1], env.input_scaled[1])))
  /\ \A i \in Metrics("Drinking Status") :
       /\ screen[i].value =
            (IF Predict(env.gb_model[1], env.input_data[1]) = 1
             THEN "Drinker" ELSE "Non-Drinker")
       /\ screen[i].delta \in
            Fmt2(SeqMax(PredictProba(env.gb_model[1], env.input_data[1])))

C9_Witness ==
  /\ Cardinality(AllMetrics) = 2
  /\ \E i \in Metrics("Smoking Status") : screen[i].value = "Smoker"
  /\ \E i \in Metrics("Drinking Status") : screen[i].value = "Non-Drinker"
  /\ env.smoking_prob # env.drinking_prob

\* C10: a metric is on the page only after both predictions, label and
\* probability, were computed; when the transform or a classifier call
\* raises, the page holds no part of the results, only the one
\* prediction-error message.
C10_ResultsAllOrNothing ==
  /\ AllMetrics # {} =>
       /\ env.smoking_pred # None /\ env.smoking_prob # None
       /\ env.drinking_pred # None /\ env.drinking_prob # None
  /\ (raised # None /\ raised[1].at \in {"L65", "L68", "L69", "L72", "L73"}) =>
       /\ ResultElements = {}
       /\ Cardinality(PredictionErrors) = 1

C10_Witness ==
  /\ raised # None
  /\ raised[1].at = "L73"
  /\ env.smoking_prob # None
  /\ ResultElements = {}

====
